---- MODULE Spec2Model ----
(***************************************************************************)
(* A model of ip_range_switcher.py: the profile file (load_profiles,       *)
(* save_profiles over a JSON document), the netsh command sequences        *)
(* (apply_profile, set_dhcp) and the Tk handlers of App that bind them.    *)
(*                                                                         *)
(* Every Python str is a sequence of one-character strings, so that        *)
(* str.strip and the JSON text are computed and not assumed.  A Python     *)
(* dict is a sequence of [name, rec] entries in insertion order.           *)
(***************************************************************************)
EXTENDS Integers, Sequences, FiniteSets, TLC

VARIABLES
    profiles,      \* App.profiles: the in-memory dict name -> record
    disk,          \* ip_profiles.json: [exists, text]
    profile_lst,   \* App.profile_lst: the names shown in the Listbox
    sel,           \* Listbox.curselection(): an index of profile_lst, 0 = none
    adapter_cmb,   \* App.adapter_cmb.get(): the text of the Combobox
    adapter_vals,  \* App.adapter_cmb['values']: the last enumerated adapters
    netsh_log,     \* the netsh commands launched by the last handler or call
    last,          \* what the last handler or call was, and how it ended
    loaded,        \* the result of the last load_profiles() call
    failures       \* storage failures injected so far

vars == <<profiles, disk, profile_lst, sel, adapter_cmb, adapter_vals,
          netsh_log, last, loaded, failures>>

----------------------------------------------------------------------------
(* Bounds *)

\* The number of storage failures (open or write errors) one run may inject.
MaxFailures == 1

----------------------------------------------------------------------------
(* Text *)

E == << >>                  \* the empty str ''

IsSpace(c) == c \in {" ", "\n"}

RECURSIVE LStrip(_)
LStrip(s) ==
    IF s = E THEN E
    ELSE IF IsSpace(Head(s)) THEN LStrip(Tail(s)) ELSE s

RECURSIVE RStrip(_)
RStrip(s) ==
    IF s = E THEN E
    ELSE IF IsSpace(s[Len(s)]) THEN RStrip(SubSeq(s, 1, Len(s) - 1)) ELSE s

\* str.strip(): leading and trailing whitespace removed, the inside kept.
Strip(s) == RStrip(LStrip(s))

----------------------------------------------------------------------------
(* Python dict, insertion ordered *)

Keys(d) == {d[i].name : i \in 1..Len(d)}

KeyList(d) == [i \in 1..Len(d) |-> d[i].name]

IndexOf(d, n) == CHOOSE i \in 1..Len(d) : d[i].name = n

\* d[n]: the record, or KeyError.
KeyError == [error |-> "KeyError"]

Get(d, n) == IF n \in Keys(d) THEN d[IndexOf(d, n)].rec ELSE KeyError

\* d[n] = r: replaces in place when n is a key, appends otherwise.
DictSet(d, n, r) ==
    IF n \in Keys(d)
    THEN [d EXCEPT ![IndexOf(d, n)] = [name |-> n, rec |-> r]]
    ELSE Append(d, [name |-> n, rec |-> r])

\* A pop that removes whatever entry is first, whatever the name.
DictPopFirst(d, n) == IF d = << >> THEN d ELSE Tail(d)

\* d.pop(n, None): removes the entry of n when present, else nothing.
DictPop(d, n) ==
    IF n \in Keys(d)
    THEN LET i == IndexOf(d, n)
         IN  SubSeq(d, 1, i - 1) \o SubSeq(d, i + 1, Len(d))
    ELSE d

----------------------------------------------------------------------------
(* The profile record and the JSON document of ip_profiles.json *)

\* The keys of a profile record, in the order ProfileDialog.body lists them.
Fields == <<"ip", "mask", "gw", "dns1", "dns2">>

FieldSet == {Fields[i] : i \in 1..Len(Fields)}

\* The characters of each key, as json writes them.
KeyChars ==
    [ip   |-> <<"i", "p">>,
     mask |-> <<"m", "a", "s", "k">>,
     gw   |-> <<"g", "w">>,
     dns1 |-> <<"d", "n", "s", "1">>,
     dns2 |-> <<"d", "n", "s", "2">>]

Q == "\""       \* the quotation mark
BS == "\\"      \* the backslash
NL == "\n"      \* the line feed

\* An encoder that leaves the backslash as it is.
JsonEscapeNoBackslash(c) ==
    IF c = Q THEN <<BS, Q>>
    ELSE IF c = NL THEN <<BS, "n">>
    ELSE <<c>>

\* json's encoding of one character of a str (ensure_ascii, the default).
JsonEscape(c) ==
    IF c = Q THEN <<BS, Q>>
    ELSE IF c = BS THEN <<BS, BS>>
    ELSE IF c = NL THEN <<BS, "n">>
    ELSE <<c>>

RECURSIVE JsonEscapeAll(_)
JsonEscapeAll(s) ==
    IF s = E THEN E ELSE JsonEscape(Head(s)) \o JsonEscapeAll(Tail(s))

JsonString(s) == <<Q>> \o JsonEscapeAll(s) \o <<Q>>

Spaces(n) == [i \in 1..n |-> " "]

\* One "key": value member, at indent n.
Member(n, k, v) == Spaces(n) \o JsonString(k) \o <<":", " ">> \o v

RECURSIVE JoinMembers(_)
JoinMembers(ms) ==
    IF Len(ms) = 1 THEN ms[1]
    ELSE ms[1] \o <<",", NL>> \o JoinMembers(Tail(ms))

\* An object at nesting depth n (indent=2): '{}' when empty.
JsonObject(n, ms) ==
    IF ms = << >> THEN <<"{", "}">>
    ELSE <<"{", NL>> \o JoinMembers(ms) \o <<NL>> \o Spaces(2 * n) \o <<"}">>

DumpRecord(r) ==
    JsonObject(1, [i \in 1..Len(Fields) |->
                      Member(4, KeyChars[Fields[i]], JsonString(r[Fields[i]]))])

\* json.dump(profiles, f, indent=2): the text written.
JsonDump(d) ==
    JsonObject(0, [i \in 1..Len(d) |-> Member(2, d[i].name, DumpRecord(d[i].rec))])

(* json.load: a scanner that reads the text one character at a time.       *)
(* What it holds between two characters:                                   *)
(*   mode   what it expects next; "bad" once json.JSONDecodeError is due   *)
(*   depth  0 outside, 1 in the outer object, 2 in a profile's object      *)
(*   what   whether the string being read is a key or a value              *)
(*   esc    whether the last character was an unpaired backslash           *)
(*   buf    the characters of the string read so far                       *)
(*   name, fkey  the key of the open outer member, and of the inner one    *)
(*   rec, store  the inner and the outer dict built so far                 *)

ScanStart ==
    [mode |-> "start", depth |-> 0, what |-> "key", esc |-> FALSE, buf |-> E,
     name |-> E, fkey |-> E, rec |-> << >>, store |-> << >>]

\* The record of a parsed inner object: a record over Fields.
AsRecord(d) == [f \in FieldSet |-> Get(d, KeyChars[f])]

\* A '}' met where an object may end.
CloseObject(st) ==
    IF st.depth = 2
    THEN IF Keys(st.rec) = {KeyChars[f] : f \in FieldSet}
         THEN [st EXCEPT !.depth = 1, !.mode = "after",
                         !.store = DictSet(st.store, st.name, AsRecord(st.rec))]
         ELSE [st EXCEPT !.mode = "bad"]
    ELSE [st EXCEPT !.depth = 0, !.mode = "end"]

\* A character inside a string.
InString(st, c) ==
    IF st.esc
    THEN IF c = Q \/ c = BS THEN [st EXCEPT !.esc = FALSE, !.buf = Append(st.buf, c)]
         ELSE IF c = "n" THEN [st EXCEPT !.esc = FALSE, !.buf = Append(st.buf, NL)]
         ELSE [st EXCEPT !.mode = "bad"]
    ELSE IF c = BS THEN [st EXCEPT !.esc = TRUE]
    ELSE IF c = NL THEN [st EXCEPT !.mode = "bad"]
    ELSE IF c # Q THEN [st EXCEPT !.buf = Append(st.buf, c)]
    ELSE IF st.what = "val"
         THEN [st EXCEPT !.mode = "after", !.rec = DictSet(st.rec, st.fkey, st.buf)]
    ELSE IF st.depth = 1 THEN [st EXCEPT !.mode = "colon", !.name = st.buf]
    ELSE [st EXCEPT !.mode = "colon", !.fkey = st.buf]

OpenString(st, w) == [st EXCEPT !.mode = "string", !.what = w, !.buf = E, !.esc = FALSE]

\* A character outside a string.
Between(st, c) ==
    IF IsSpace(c) THEN st
    ELSE IF st.mode = "start"
         THEN IF c = "{" THEN [st EXCEPT !.depth = 1, !.mode = "first"]
              ELSE [st EXCEPT !.mode = "bad"]
    ELSE IF st.mode = "first"
         THEN IF c = Q THEN OpenString(st, "key")
              ELSE IF c = "}" THEN CloseObject(st)
              ELSE [st EXCEPT !.mode = "bad"]
    ELSE IF st.mode = "key"
         THEN IF c = Q THEN OpenString(st, "key") ELSE [st EXCEPT !.mode = "bad"]
    ELSE IF st.mode = "colon"
         THEN IF c = ":" THEN [st EXCEPT !.mode = "value"] ELSE [st EXCEPT !.mode = "bad"]
    ELSE IF st.mode = "value"
         THEN IF st.depth = 1 /\ c = "{"
              THEN [st EXCEPT !.depth = 2, !.mode = "first", !.rec = << >>]
              ELSE IF st.depth = 2 /\ c = Q THEN OpenString(st, "val")
              ELSE [st EXCEPT !.mode = "bad"]
    ELSE IF st.mode = "after"
         THEN IF c = "," THEN [st EXCEPT !.mode = "key"]
              ELSE IF c = "}" THEN CloseObject(st)
              ELSE [st EXCEPT !.mode = "bad"]
    ELSE [st EXCEPT !.mode = "bad"]

ScanChar(st, c) ==
    IF st.mode = "bad" THEN st
    ELSE IF st.mode = "string" THEN InString(st, c)
    ELSE Between(st, c)

\* The characters s[lo..hi] read in order from st (the range is halved so that
\* the depth of the evaluation stays logarithmic in the length of the text).
RECURSIVE Scan(_, _, _, _)
Scan(s, lo, hi, st) ==
    IF lo > hi THEN st
    ELSE IF lo = hi THEN ScanChar(st, s[lo])
    ELSE LET left == Scan(s, lo, (lo + hi) \div 2, st)
         IN  IF left.mode = "bad" THEN left
             ELSE Scan(s, (lo + hi) \div 2 + 1, hi, left)

\* json.load(f): the dict of the whole text; a text that ends early, or goes
\* on after the object, or is no object of profile objects, is rejected.
JsonLoad(s) ==
    LET st == Scan(s, 1, Len(s), ScanStart)
    IN  [ok |-> st.mode = "end", val |-> IF st.mode = "end" THEN st.store ELSE << >>]

\* The file: absent, or present with a text.
NoFile == [exists |-> FALSE, text |-> E]

File(t) == [exists |-> TRUE, text |-> t]

\* load_profiles(): {} when the file does not exist, else json.load of it;
\* a text json rejects raises.
load_profiles(d) ==
    IF ~d.exists THEN [ok |-> TRUE, val |-> << >>]
    ELSE LET r == JsonLoad(d.text) IN [ok |-> r.ok, val |-> r.val]

\* What save_profiles can meet: the write succeeds, open() raises (the file
\* is left as it was), or the write raises after open(..., 'w') truncated
\* the file (part of the text is left).
SaveOutcomes == {"ok", "open_fails", "write_fails"}

\* Where a failed write may stop: nothing written, or the first character.
CutPoints(t) == {0, 1}

\* save_profiles(profiles) under outcome oc, stopped at cut when the write
\* fails: the file afterwards.
save_profiles(d, old, oc, cut) ==
    IF oc = "ok" THEN File(JsonDump(d))
    ELSE IF oc = "open_fails" THEN old
    ELSE File(SubSeq(JsonDump(d), 1, cut))

----------------------------------------------------------------------------
(* netsh: apply_profile and set_dhcp *)

\* What subprocess.run(['netsh', ...]) can meet: exit status 0, a non-zero
\* exit status (returned, never looked at), or no netsh to launch
\* (subprocess.run raises FileNotFoundError).
RunOutcomes == {"ok", "nonzero", "unreachable"}

\* The five netsh command lines.
SetAddressStatic(a, p) ==
    [cmd |-> "set address", name |-> a, mode |-> "static",
     args |-> <<p.ip, p.mask, p.gw>>, tail |-> "1"]

SetDnsStatic(a, p) ==
    [cmd |-> "set dns", name |-> a, mode |-> "static",
     args |-> <<p.dns1>>, tail |-> "primary"]

AddDns(a, p) ==
    [cmd |-> "add dns", name |-> a, mode |-> "",
     args |-> <<p.dns2>>, tail |-> "index=2"]

SetAddressDhcp(a) ==
    [cmd |-> "set address", name |-> a, mode |-> "dhcp", args |-> << >>, tail |-> ""]

SetDnsDhcp(a) ==
    [cmd |-> "set dns", name |-> a, mode |-> "dhcp", args |-> << >>, tail |-> ""]

\* A run of commands: those launched so far, what each met, and whether one
\* raised.
NoRun == [log |-> << >>, results |-> << >>, raised |-> FALSE]

\* _run_netsh(args) under outcome oc, reached only if nothing raised before:
\* the command is launched; its result is dropped; a launch that cannot
\* find netsh raises out of _run_netsh.
run_netsh(st, args, oc) ==
    IF st.raised THEN st
    ELSE [log     |-> Append(st.log, args),
          results |-> Append(st.results, oc),
          raised  |-> (oc = "unreachable")]

\* The dict {}.
EmptyDict == [f \in {} |-> E]

\* apply_profile(adapter, p), the i-th command meeting outcome ocs[i].
apply_profile(adapter, p, ocs) ==
    IF adapter = E \/ DOMAIN p = {} THEN NoRun
    ELSE LET s1 == run_netsh(NoRun, SetAddressStatic(adapter, p), ocs[1])
             s2 == run_netsh(s1, SetDnsStatic(adapter, p), ocs[2])
         IN  IF p.dns2 # E THEN run_netsh(s2, AddDns(adapter, p), ocs[3]) ELSE s2

\* set_dhcp(adapter).
set_dhcp(adapter, ocs) ==
    LET s1 == run_netsh(NoRun, SetAddressDhcp(adapter), ocs[1])
    IN  run_netsh(s1, SetDnsDhcp(adapter), ocs[2])

----------------------------------------------------------------------------
(* Adapter enumeration *)

RECURSIVE StripLines(_)
StripLines(ls) ==
    IF ls = << >> THEN << >>
    ELSE IF Strip(Head(ls)) # E THEN <<Strip(Head(ls))>> \o StripLines(Tail(ls))
    ELSE StripLines(Tail(ls))

\* list_adapters(): the stripped non-blank lines of the PowerShell output.
list_adapters(lines) == StripLines(lines)

Eth == <<"e", "t", "h">>
Wifi == <<"w", "l", "a", "n">>

\* The text the Combobox shows when no adapter was found.
NoAdapterText == <<"(", "n", "o", " ", "a", "d", "a", "p", "t", "e", "r", ")">>

\* What the PowerShell query may print, as lines.
PsOutputs ==
    { << >>, <<E>>, <<<<" ">> \o Eth \o <<" ">>, E>> }

\* _refresh_adapters: the Combobox after it.
ComboAfterRefresh(vals) == IF vals # << >> THEN vals[1] ELSE NoAdapterText

InSeq(x, s) == \E i \in 1..Len(s) : s[i] = x

----------------------------------------------------------------------------
(* ProfileDialog *)

\* ProfileDialog.validate: ip, mask and gw are not blank once stripped.
validate(form) ==
    /\ Strip(form.ip) # E
    /\ Strip(form.mask) # E
    /\ Strip(form.gw) # E

\* ProfileDialog.apply: every entry stripped.
DialogApply(form) == [f \in FieldSet |-> Strip(form[f])]

NoResult == [has |-> FALSE, rec |-> EmptyDict]

\* dlg.result once the dialog is closed.  OK on a form validate rejects
\* shows the error and keeps the dialog open; it is closed by Cancel (result
\* None) or by OK on a form validate accepts.
DialogResult(form, button) ==
    IF button = "ok" /\ validate(form)
    THEN [has |-> TRUE, rec |-> DialogApply(form)]
    ELSE NoResult

\* What the operator may type into the five entries: every entry filled, both
\* DNS entries left out, and one required entry blank.
Form(a, b, c, d, e) == [ip |-> a, mask |-> b, gw |-> c, dns1 |-> d, dns2 |-> e]

Filled == <<"1", " ">>
Blank == <<" ">>
Dns == <<" ", "8">>

Forms ==
    { Form(Filled, Filled, Filled, Dns, Dns),
      Form(Filled, Filled, Filled, E, E),
      Form(Blank, Filled, Filled, Dns, Dns),
      Form(Filled, E, Filled, Dns, E),
      Form(Filled, Filled, Blank, Dns, Dns) }

Buttons == {"ok", "cancel"}

Office == <<"O">>
Home == <<"H">>

\* simpledialog.askstring: None on Cancel, else the text typed.
AskInputs ==
    { [ok |-> FALSE, text |-> E], [ok |-> TRUE, text |-> E],
      [ok |-> TRUE, text |-> Office], [ok |-> TRUE, text |-> Home] }

----------------------------------------------------------------------------
(* The state after each handler *)

\* op: the handler or function; adapter, name, profile: what it was given;
\* raised: the exception it ended with; shown: the messagebox it showed;
\* wrote: whether it called save_profiles; done: whether it got past its early
\* returns; ret: what it returned to its caller.
Last(op, adapter, name, profile, raised, shown, wrote, done) ==
    [op |-> op, adapter |-> adapter, name |-> name, profile |-> profile,
     raised |-> raised, shown |-> shown, wrote |-> wrote, done |-> done,
     ret |-> IF raised = "none" THEN "None" ELSE "raised", results |-> << >>]

NotLoaded == [done |-> FALSE, ok |-> TRUE, val |-> << >>]

Loaded(d) == [done |-> TRUE, ok |-> load_profiles(d).ok, val |-> load_profiles(d).val]

\* App.__init__ on a machine with no profile file yet.
Init ==
    /\ disk = NoFile
    /\ loaded = NotLoaded
    /\ profiles = load_profiles(NoFile).val
    /\ profile_lst = KeyList(profiles)
    /\ sel = 0
    /\ \E out \in PsOutputs :
          /\ adapter_vals = list_adapters(out)
          /\ adapter_cmb = ComboAfterRefresh(adapter_vals)
    /\ netsh_log = << >>
    /\ last = Last("init", E, E, EmptyDict, "none", "none", FALSE, TRUE)
    /\ failures = 0

\* App.__init__ again, on the file as it is: a file json rejects raises out
\* of the constructor and no window appears.
Restart ==
    /\ load_profiles(disk).ok
    /\ profiles' = load_profiles(disk).val
    /\ profile_lst' = KeyList(profiles')
    /\ sel' = 0
    /\ \E out \in PsOutputs :
          /\ adapter_vals' = list_adapters(out)
          /\ adapter_cmb' = ComboAfterRefresh(adapter_vals')
    /\ netsh_log' = << >>
    /\ last' = Last("init", E, E, EmptyDict, "none", "none", FALSE, TRUE)
    /\ UNCHANGED <<disk, loaded, failures>>

\* The Refresh button.
App_refresh_adapters ==
    /\ \E out \in PsOutputs :
          /\ adapter_vals' = list_adapters(out)
          /\ adapter_cmb' = ComboAfterRefresh(adapter_vals')
    /\ netsh_log' = << >>
    /\ last' = Last("_refresh_adapters", E, E, EmptyDict, "none", "none", FALSE, TRUE)
    /\ UNCHANGED <<profiles, disk, profile_lst, sel, loaded, failures>>

\* The operator picks another entry of the read-only Combobox.
SelectAdapter ==
    /\ \E i \in 1..Len(adapter_vals) : adapter_cmb' = adapter_vals[i]
    /\ netsh_log' = << >>
    /\ last' = Last("select adapter", E, E, EmptyDict, "none", "none", FALSE, TRUE)
    /\ UNCHANGED <<profiles, disk, profile_lst, sel, adapter_vals, loaded, failures>>

\* The operator clicks a line of the Listbox.
SelectProfile ==
    /\ \E i \in 1..Len(profile_lst) : sel' = i
    /\ netsh_log' = << >>
    /\ last' = Last("select profile", E, E, EmptyDict, "none", "none", FALSE, TRUE)
    /\ UNCHANGED <<profiles, disk, profile_lst, adapter_cmb, adapter_vals, loaded, failures>>

\* A handler that returned early: nothing but the record of it changes.
Returned(op, name) ==
    /\ netsh_log' = << >>
    /\ last' = Last(op, E, name, EmptyDict, "none", "none", FALSE, FALSE)
    /\ UNCHANGED <<profiles, disk, profile_lst, sel, adapter_cmb, adapter_vals,
                   loaded, failures>>

\* self.profiles = d2; save_profiles(self.profiles); then, if refresh,
\* self._refresh_profiles().  A save that raises ends the handler there.
Mutate(op, name, d2, oc, cut, refresh) ==
    /\ oc # "ok" => failures < MaxFailures
    /\ profiles' = d2
    /\ disk' = save_profiles(d2, disk, oc, cut)
    /\ failures' = IF oc = "ok" THEN failures ELSE failures + 1
    /\ IF oc = "ok" /\ refresh
       THEN profile_lst' = KeyList(d2) /\ sel' = 0
       ELSE UNCHANGED <<profile_lst, sel>>
    /\ netsh_log' = << >>
    /\ last' = Last(op, E, name, EmptyDict,
                    IF oc = "ok" THEN "none" ELSE "OSError", "none", TRUE, TRUE)
    /\ UNCHANGED <<adapter_cmb, adapter_vals, loaded>>

Cuts(d2, oc) == IF oc = "write_fails" THEN CutPoints(JsonDump(d2)) ELSE {0}

\* App._add
App_add ==
    \E ask \in AskInputs :
        IF ~ask.ok \/ ask.text = E THEN Returned("_add", ask.text)
        ELSE \E form \in Forms, button \in Buttons :
               LET res == DialogResult(form, button) IN
               IF ~res.has THEN Returned("_add", ask.text)
               ELSE LET d2 == DictSet(profiles, ask.text, res.rec) IN
                    \E oc \in SaveOutcomes : \E cut \in Cuts(d2, oc) :
                        Mutate("_add", ask.text, d2, oc, cut, TRUE)

\* A handler that raised before it changed anything.
Raised(op, name, exc) ==
    /\ netsh_log' = << >>
    /\ last' = Last(op, E, name, EmptyDict, exc, "none", FALSE, FALSE)
    /\ UNCHANGED <<profiles, disk, profile_lst, sel, adapter_cmb, adapter_vals,
                   loaded, failures>>

\* App._edit
App_edit ==
    IF sel = 0 THEN Returned("_edit", E)
    ELSE LET name == profile_lst[sel] IN
         IF name \notin Keys(profiles) THEN Raised("_edit", name, "KeyError")
         ELSE \E form \in Forms, button \in Buttons :
                LET res == DialogResult(form, button) IN
                IF ~res.has THEN Returned("_edit", name)
                ELSE LET d2 == DictSet(profiles, name, res.rec) IN
                     \E oc \in SaveOutcomes : \E cut \in Cuts(d2, oc) :
                         Mutate("_edit", name, d2, oc, cut, FALSE)

\* App._delete
App_delete ==
    IF sel = 0 THEN Returned("_delete", E)
    ELSE LET name == profile_lst[sel] IN
         \E yes \in BOOLEAN :
            IF ~yes THEN Returned("_delete", name)
            ELSE LET d2 == DictPop(profiles, name) IN
                 \E oc \in SaveOutcomes : \E cut \in Cuts(d2, oc) :
                     Mutate("_delete", name, d2, oc, cut, TRUE)

\* The end of a handler that ran netsh commands.
Transition(op, adapter, name, p, run, title) ==
    /\ netsh_log' = run.log
    /\ last' = Last(op, adapter, name, p,
                    IF run.raised THEN "FileNotFoundError" ELSE "none",
                    IF run.raised THEN "none" ELSE title, FALSE, TRUE)
    /\ UNCHANGED <<profiles, disk, profile_lst, sel, adapter_cmb, adapter_vals,
                   loaded, failures>>

\* An _apply that also writes the profile file.
App_apply_saving ==
    /\ sel # 0
    /\ profile_lst[sel] \in Keys(profiles)
    /\ \E ocs \in [1..3 -> RunOutcomes] :
          LET name == profile_lst[sel]
              p    == Get(profiles, name)
              run  == apply_profile(adapter_cmb, p, ocs)
          IN  /\ netsh_log' = run.log
              /\ last' = Last("_apply", adapter_cmb, name, p, "none", "Done", TRUE, TRUE)
              /\ disk' = File(JsonDump(profiles))
              /\ UNCHANGED <<profiles, profile_lst, sel, adapter_cmb, adapter_vals,
                             loaded, failures>>

\* App._apply
App_apply ==
    IF sel = 0 THEN Returned("_apply", E)
    ELSE LET name == profile_lst[sel] IN
         IF name \notin Keys(profiles) THEN Raised("_apply", name, "KeyError")
         ELSE \E ocs \in [1..3 -> RunOutcomes] :
                LET p == Get(profiles, name) IN
                Transition("_apply", adapter_cmb, name, p,
                           apply_profile(adapter_cmb, p, ocs), "Done")

\* App._dhcp
App_dhcp ==
    /\ \E ocs \in [1..2 -> RunOutcomes] :
          Transition("_dhcp", adapter_cmb, E, EmptyDict,
                     set_dhcp(adapter_cmb, ocs), "DHCP")

Next ==
    \/ Restart
    \/ App_refresh_adapters
    \/ SelectAdapter
    \/ SelectProfile
    \/ App_add
    \/ App_edit
    \/ App_delete
    \/ App_apply
    \/ App_dhcp

Spec == Init /\ [][Next]_vars

----------------------------------------------------------------------------
(* apply_profile and set_dhcp called directly, with any adapter and profile *)

EngineAdapters == {E, Eth, Wifi, NoAdapterText}

\* {} and every record over the five keys with each value blank or not.
EngineProfiles == {EmptyDict} \cup [FieldSet -> {E, <<"1">>}]

\* The end of a direct call.
Called(op, adapter, p, run, done) ==
    /\ netsh_log' = run.log
    /\ last' = [Last(op, adapter, E, p,
                     IF run.raised THEN "FileNotFoundError" ELSE "none",
                     "none", FALSE, done)
                  EXCEPT !.results = run.results]
    /\ UNCHANGED <<profiles, disk, profile_lst, sel, adapter_cmb, adapter_vals,
                   loaded, failures>>

Call_apply_profile ==
    /\ \E a \in EngineAdapters, p \in EngineProfiles, ocs \in [1..3 -> RunOutcomes] :
          Called("apply_profile", a, p, apply_profile(a, p, ocs),
                 ~(a = E \/ DOMAIN p = {}))

Call_set_dhcp ==
    /\ \E a \in EngineAdapters, ocs \in [1..2 -> RunOutcomes] :
          Called("set_dhcp", a, EmptyDict, set_dhcp(a, ocs), TRUE)

EngineNext ==
    \/ App_refresh_adapters
    \/ Call_apply_profile
    \/ Call_set_dhcp

SpecEngine == Init /\ [][EngineNext]_vars

----------------------------------------------------------------------------
(* save_profiles then load_profiles, on stores whose strings need escaping *)

RTNames == { <<"a">>, <<Q, BS>>, <<BS, "n">> }

RTVals == { E, <<"a", Q, BS>>, <<BS, "n", NL, " ">> }

RTRecords == [FieldSet -> RTVals]

RTSecond ==
    { [f \in FieldSet |-> <<BS, BS, Q>>],
      [f \in FieldSet |-> IF f = "dns2" THEN E ELSE <<" ", "a">>] }

RTStores ==
    {<< >>}
    \cup { <<[name |-> n, rec |-> r]>> : n \in RTNames, r \in RTRecords }
    \cup { <<[name |-> nr[1], rec |-> nr[2]], [name |-> ms[1], rec |-> ms[2]]>> :
             nr \in RTNames \X RTRecords,
             ms \in RTNames \X RTSecond }

RTInit ==
    /\ profiles \in { s \in RTStores : Cardinality(Keys(s)) = Len(s) }
    /\ disk = NoFile
    /\ loaded = NotLoaded
    /\ profile_lst = << >>
    /\ sel = 0
    /\ adapter_vals = << >>
    /\ adapter_cmb = NoAdapterText
    /\ netsh_log = << >>
    /\ last = Last("init", E, E, EmptyDict, "none", "none", FALSE, TRUE)
    /\ failures = 0

RT_save ==
    /\ disk' = save_profiles(profiles, disk, "ok", 0)
    /\ loaded' = NotLoaded
    /\ last' = Last("save_profiles", E, E, EmptyDict, "none", "none", TRUE, TRUE)
    /\ UNCHANGED <<profiles, profile_lst, sel, adapter_cmb, adapter_vals,
                   netsh_log, failures>>

RT_load ==
    /\ loaded' = Loaded(disk)
    /\ last' = Last("load_profiles", E, E, EmptyDict, "none", "none", FALSE, TRUE)
    /\ UNCHANGED <<profiles, disk, profile_lst, sel, adapter_cmb, adapter_vals,
                   netsh_log, failures>>

RTNext == RT_save \/ RT_load

SpecRT == RTInit /\ [][RTNext]_vars

----------------------------------------------------------------------------
(* Properties of apply_profile and set_dhcp, under SpecEngine *)

\* The last call was apply_profile with a non-empty adapter and profile.
AppliedCall ==
    /\ last.op = "apply_profile"
    /\ last.adapter # E
    /\ DOMAIN last.profile # {}

\* The last call was set_dhcp with a non-empty adapter.
RevertedCall == last.op = "set_dhcp" /\ last.adapter # E

\* C1: apply with a non-empty adapter and a non-empty profile launches
\* set-address (ip, mask, gateway, metric 1), then set-dns-primary, then
\* add-dns-secondary exactly when dns2 is non-empty: 3 commands or 2, in that
\* order, and no other command.
C1_ApplySequence ==
    AppliedCall =>
        netsh_log =
            IF last.profile.dns2 # E
            THEN << SetAddressStatic(last.adapter, last.profile),
                    SetDnsStatic(last.adapter, last.profile),
                    AddDns(last.adapter, last.profile) >>
            ELSE << SetAddressStatic(last.adapter, last.profile),
                    SetDnsStatic(last.adapter, last.profile) >>

\* C2: revert with a non-empty adapter launches exactly set-address-to-DHCP
\* then set-dns-to-DHCP, whatever came before.
C2_RevertSequence ==
    RevertedCall =>
        netsh_log = << SetAddressDhcp(last.adapter), SetDnsDhcp(last.adapter) >>

\* C3: apply and revert with an adapter that is empty, or that the adapter
\* enumeration did not return (the '(no adapter)' placeholder included), launch
\* no command and report Skipped.
C3_UnknownAdapterSkipped ==
    ( /\ last.op \in {"apply_profile", "set_dhcp"}
      /\ (last.adapter = E \/ ~InSeq(last.adapter, adapter_vals)) )
    => (netsh_log = << >> /\ last.ret = "Skipped")

\* C4: when a command of an apply or a revert fails (non-zero exit status, or
\* netsh cannot be launched), the remaining commands are still launched and
\* nothing is raised to the caller.
C4_FailureNeverAborts ==
    ( /\ AppliedCall \/ RevertedCall
      /\ \E i \in 1..Len(last.results) : last.results[i] # "ok" )
    => /\ last.raised = "none"
       /\ Len(netsh_log) =
            IF last.op = "apply_profile" /\ last.profile.dns2 # E THEN 3 ELSE 2

----------------------------------------------------------------------------
(* Properties of the profile file and of the handlers, under Spec *)

RequiredFilled(r) == r.ip # E /\ r.mask # E /\ r.gw # E /\ r.dns1 # E

\* C5: every record in the profile file has non-empty ip, mask, gw and dns1.
C5_PersistedRequiredFields ==
    load_profiles(disk).ok =>
        \A i \in 1..Len(load_profiles(disk).val) :
            RequiredFilled(load_profiles(disk).val[i].rec)

\* C6: after every handler the profile file holds the in-memory mapping, and
\* a handler that was cancelled changes neither.
C6_FileEqualsMemory ==
    [][ /\ load_profiles(disk').ok
        /\ load_profiles(disk').val = profiles'
        /\ ~last'.done => (profiles' = profiles /\ disk' = disk) ]_vars

\* C7: a handler whose save raised leaves the in-memory mapping and the file
\* as they were before it.
C7_FailedSaveLeavesStore ==
    [][ last'.raised = "OSError" => (profiles' = profiles /\ disk' = disk) ]_vars

\* C9: a confirmed delete of name removes name's entry if there is one and
\* leaves every other entry as it was; with no such entry the mapping is left
\* as it is; afterwards a lookup of name fails.
C9_Delete ==
    [][ (last'.op = "_delete" /\ last'.done) =>
          /\ Keys(profiles') = Keys(profiles) \ {last'.name}
          /\ \A m \in Keys(profiles') : Get(profiles', m) = Get(profiles, m)
          /\ last'.name \notin Keys(profiles) => profiles' = profiles
          /\ Get(profiles', last'.name) = KeyError ]_vars

\* C9's case: a confirmed delete ran and left another profile in the mapping.
C9_Witness ==
    /\ last.op = "_delete"
    /\ last.done
    /\ last.raised = "none"
    /\ Len(profiles) = 1

\* C10: _apply and _dhcp leave the in-memory mapping and the profile file as
\* they were, whatever the commands met, and do not call save_profiles.
C10_TransitionLeavesStore ==
    [][ last'.op \in {"_apply", "_dhcp"} =>
          /\ profiles' = profiles
          /\ disk' = disk
          /\ ~last'.wrote ]_vars

\* C10's case: _apply launched the three commands of a stored, saved profile.
C10_Witness ==
    /\ last.op = "_apply"
    /\ last.done
    /\ Len(netsh_log) = 3
    /\ disk.exists
    /\ profiles # << >>

----------------------------------------------------------------------------
(* The round trip, under SpecRT *)

\* C8: load_profiles after save_profiles(s) returns s, names and field values
\* alike; load_profiles with no file returns the empty mapping.
C8_RoundTrip ==
    loaded.done =>
        /\ loaded.ok
        /\ loaded.val = IF disk.exists THEN profiles ELSE << >>

\* C8's case: a store of two profiles was saved and loaded back.
C8_Witness ==
    /\ loaded.done
    /\ disk.exists
    /\ Len(profiles) = 2
    /\ \E i \in 1..2 : profiles[i].rec.ip = <<"a", Q, BS>>

====
